---- MODULE Spec2Model ----
(***************************************************************************)
(* Model of the go-sse broker "Joe" (src/server/joe.go): the event loop    *)
(* Joe.start, its callers Subscribe / Publish / Stop, the watcher          *)
(* goroutine that Subscribe spawns, and the Finite replay provider         *)
(* (src/sse/event/field/id.go) the loop hands messages to.  Besides the    *)
(* broker: the replay providers Finite and Valid on their own (Append, GC, *)
(* Range), the gc tick of the loop, and Message.AppendData as the tests    *)
(* in src/unnamed/part_000 expect it.                                      *)
(*                                                                         *)
(* Go semantics the model relies on:                                       *)
(*  - a select with several ready cases takes any one of them;             *)
(*  - a send on an unbuffered channel is a rendezvous with the receive, so *)
(*    a send on subscription / unsubscription and the loop's handler for   *)
(*    it form one step, enabled only while the loop waits in its select;   *)
(*  - a send on a closed channel and a close of a closed channel panic;    *)
(*  - a panic in the loop runs the deferred closeSubscribers and ends the  *)
(*    loop goroutine (loopPc = "panicked"); a panic inside the deferred    *)
(*    call abandons the rest of its iteration;                             *)
(*  - ranging over a map visits its keys in an unspecified order.          *)
(***************************************************************************)
EXTENDS Integers, Sequences, FiniteSets, TLC

\* ------------------------------------------------------------- bounds
Sinks == {"A", "B"}
DefaultTopic == "d"
Topics == {DefaultTopic, "t"}
MaxSub == 2
MaxPub == 3
MaxStop == 2
SinkCap == 1
NoID == 0
MessageChannelBuffer == 1
FiniteCount == 2

MaxAppend == 3
MaxGC == 2
MaxLen == 3
MaxChunks == 3
MaxTime == 1

SubCalls == 1..MaxSub
PubCalls == 1..MaxPub
StopCalls == 1..MaxStop
LastIDs == {NoID, 1}
\* the IDs Range is called with: no ID, every ID appended, one never appended
IDArgs == 0..(MaxAppend + 1)
\* the instants at which an appended event expires
ExpArgs == 0..(MaxTime + 1)
\* the Topics arguments Subscribe is called with: none, or every topic
TopicArgs == {{}, Topics}
\* the topic of the message the p-th Publish call passes
TopicArg(p) == IF p = 1 THEN DefaultTopic ELSE "t"
\* the channels the c-th Subscribe call may pass (the first one passes "A")
ChannelArgs(c) == IF c = 1 THEN {"A"} ELSE Sinks

VARIABLES
    done,          \* j.done is closed
    message,       \* j.message: buffered channel of Message
    topics,        \* j.topics: map topic -> set of sinks
    subscribers,   \* j.subscribers
    replayBuf,     \* buffer of the Finite replay provider
    loopPc,        \* position of Joe.start: select, replay, exited, panicked
    replaying,     \* subscription being replayed and the events still to send
    sinkBuf,       \* number of events buffered in each subscriber channel
    closed,        \* subscriber channels that are closed
    sub,           \* Subscribe calls: caller position, arguments, context, watcher
    pub,           \* Publish calls
    stop,          \* Stop calls
    lastCalls,     \* history: per sink, invocations of j.send for the last message
    gotLive,       \* history: per sink, ids of the messages j.send put on it
    gotReplay,     \* history: sinks an event was sent to by j.replay.Replay
    closeCalls,    \* history: number of close(sink) executed by the loop goroutine
    dropped,       \* history: per sink, ids of the messages the send policy dropped
    stopsOverlapped, \* history: two Stop calls were in progress at the same time
    order,         \* history: ids of the messages in the order they entered j.message
    gcTick,        \* j.gc holds a tick
    gcStopped,     \* j.stopGC has been called
    gcCalls,       \* history: number of calls of j.replay.GC
    gcFailed,      \* history: a call of j.replay.GC returned a non-nil error
    finite,        \* a replay.Finite provider: its buffer b and its count
    valid,         \* a replay.Valid provider: its buffer b
    now,           \* time.Now()
    appended,      \* history: number of Append calls on each provider
    noAnchor,      \* history: sinks registered after a Range that found no anchor
    ignored,       \* history: sinks a subscription for which was ignored as a
                   \* duplicate though it named a new topic and had events to replay
    op,            \* history: the last provider operation and its result
    chunks,        \* Message.chunks
    data           \* history: the value last passed to AppendData, the chunks it added

vars == <<done, message, topics, subscribers, replayBuf, loopPc, replaying, sinkBuf,
          closed, sub, pub, stop, lastCalls, gotLive, gotReplay, closeCalls,
          dropped, stopsOverlapped, order, noAnchor, ignored, gcTick, gcStopped, gcCalls, gcFailed,
          finite, valid,
          now, appended, op, chunks, data>>

brokerVars == <<done, message, topics, subscribers, replayBuf, loopPc, replaying,
                sinkBuf, closed>>
historyVars == <<lastCalls, gotLive, gotReplay, closeCalls, dropped>>
gcVars == <<gcTick, gcStopped, gcCalls, gcFailed>>
providerVars == <<finite, valid, now, appended>>
\* the variables no caller of the broker and no case of its loop but gc touches
libVars == <<gcVars, providerVars, op, chunks, data>>

NoReplay == [ch |-> "-", topics |-> {}, pend |-> <<>>]

\* ------------------------------------------------------------- helpers
\* j.topics[identifier] read without creating the entry
TopicSubs(tps, identifier) == IF identifier \in DOMAIN tps THEN tps[identifier] ELSE {}

\* Joe.topic: the map with the entry for identifier created when absent
topic(tps, identifier) ==
    IF identifier \in DOMAIN tps THEN tps ELSE tps @@ (identifier :> {})

\* mutant: the message case looks the topic up with j.topic, which creates it
TopicsCreated(tps, identifier) == topic(tps, identifier)

\* the message case only reads j.topics[msg.Topic]: the map stays as it is
TopicsAfterMessage(tps, identifier) == tps

\* mutant: the subscription case leaves the topic sets as they are
RegisteredNowhere(tps, ch, ts) == tps

RECURSIVE Registered(_, _, _)
\* for _, topic := range sub.Topics { j.topic(topic)[sub.Channel] = struct{}{} }
Registered(tps, ch, ts) ==
    IF ts = {} THEN tps
    ELSE LET t == CHOOSE x \in ts : TRUE
             m == topic(tps, t)
         IN Registered([m EXCEPT ![t] = @ \cup {ch}], ch, ts \ {t})

\* mutant: the channel is deleted from one topic only
UnregisteredOnce(tps, unsub) ==
    IF \E t \in DOMAIN tps : unsub \in tps[t]
    THEN LET one == CHOOSE t \in DOMAIN tps : unsub \in tps[t]
         IN [tps EXCEPT ![one] = @ \ {unsub}]
    ELSE tps

\* for _, subs := range j.topics { delete(subs, unsub) }
Unregistered(tps, unsub) == [t \in DOMAIN tps |-> tps[t] \ {unsub}]

\* topics(sub.Topics): an empty topic list means the default topic
topicsOf(ts) == IF ts = {} THEN {DefaultTopic} ELSE ts

\* mutant: the subscription case without its duplicate check
NeverSubscribed(subs, ch) == FALSE

\* the subscription case's duplicate check
AlreadySubscribed(subs, ch) == ch \in subs

\* NewFiniteProvider(count, autoIDs): an empty buffer and the count
NewFiniteProvider(count) == [b |-> <<>>, count |-> count]

\* NewValidProvider(autoIDs): an empty buffer
NewValidProvider == [b |-> <<>>]

\* mutant: Append dequeues only once the buffer is longer than count
FiniteAppendLate(f, ep) ==
    IF Len(f.b) > f.count THEN [f EXCEPT !.b = Append(Tail(@), ep)]
    ELSE [f EXCEPT !.b = Append(@, ep)]

\* Finite.Append: if f.b.len() == f.count { f.b.dequeue() }; f.b.queue(ep)
FiniteAppend(f, ep) ==
    IF Len(f.b) = f.count THEN [f EXCEPT !.b = Append(Tail(@), ep)]
    ELSE [f EXCEPT !.b = Append(@, ep)]

\* Valid.Append: v.b.queue(ep)
ValidAppend(v, ep) == [v EXCEPT !.b = Append(@, ep)]

\* j.replay.Put(&msg) on the broker's Finite provider of count FiniteCount
Put(b, m) == FiniteAppend([b |-> b, count |-> FiniteCount], m).b

\* buffer.slice: the events from the one whose ID is from on; <<>> when there is none
slice(b, from) ==
    IF \E i \in 1..Len(b) : b[i].id = from
    THEN LET i == CHOOSE k \in 1..Len(b) :
                     b[k].id = from /\ \A l \in 1..(k - 1) : b[l].id # from
         IN SubSeq(b, i, Len(b))
    ELSE <<>>

\* buffer.slice fails: no event of the buffer has the ID from
sliceErr(b, from) == \A i \in 1..Len(b) : b[i].id # from

\* mutant: Range ranges over events instead of events[1:]
RangeWithAnchor(b, from) == slice(b, from)

\* Finite.Range: the events passed to fn, in order (none when slice fails)
Range(b, from) == LET events == slice(b, from) IN
    IF events = <<>> THEN <<>> ELSE Tail(events)

\* time.Time.Before and time.Time.After on instants counted in ticks
Before(t, u) == t < u
After(t, u) == t > u

\* mutant: Valid.Range without the expiry test
ValidRangeAll(b, from, t) == Range(b, from)

\* Valid.Range at time t: the events passed to fn, in order
ValidRange(b, from, t) == LET events == slice(b, from) IN
    IF events = <<>> THEN <<>>
    ELSE SelectSeq(Tail(events), LAMBDA e : After(e.exp, t))

RECURSIVE GC(_, _)
\* Valid.GC at time t: the buffer it leaves
GC(b, t) ==
    IF b = <<>> \/ Before(Head(b).exp, t) THEN b
    ELSE GC(Tail(b), t)

\* no AppendData call yet
NoData == [value |-> <<>>, added |-> <<>>]

\* no operation yet
NoOp == [name |-> "-", from |-> NoID, err |-> FALSE, calls |-> <<>>, before |-> <<>>,
         at |-> 0]

RECURSIVE OnTopics(_, _)
OnTopics(evs, ts) ==
    IF evs = <<>> THEN <<>>
    ELSE IF Head(evs).topic \in ts THEN <<Head(evs)>> \o OnTopics(Tail(evs), ts)
    ELSE OnTopics(Tail(evs), ts)

\* ReplayProvider.Replay: the events it sends to subscription.Channel, in order
Replay(b, s) == OnTopics(Range(b, s.last), s.topics)

\* the send policy with SendTimeout = 0 on an open sink: non-blocking send
SendReady(n) == n < SinkCap

\* The sinks a range over the set S reaches when the body panics on a closed
\* one: all of S when none is closed, otherwise some open ones and then one
\* closed sink, on which the iteration is abandoned.
Visits(S, cl) ==
    IF S \cap cl = {} THEN {S}
    ELSE {P \cup {c} : P \in SUBSET (S \ cl), c \in S \cap cl}

\* calls are numbered in the order they begin
InOrder(calls, c) == IF c = 1 THEN TRUE ELSE calls[c - 1].pc # "idle"

Bump(f, S) == [s \in Sinks |-> f[s] + IF s \in S THEN 1 ELSE 0]

\* mutant: the loop reads the oldest message and leaves it in the channel
Peeked(ch) == ch

\* msg := <-j.message: the channel once its oldest message is taken off
Taken(ch) == Tail(ch)

\* ------------------------------------------------------------- Init
Init ==
    /\ done = FALSE
    /\ message = <<>>
    /\ topics = [t \in {} |-> {}]
    /\ subscribers = {}
    /\ replayBuf = <<>>
    /\ loopPc = "select"
    /\ replaying = NoReplay
    /\ sinkBuf = [s \in Sinks |-> 0]
    /\ closed = {}
    /\ sub = [c \in SubCalls |-> [pc |-> "idle", ch |-> "-", topics |-> {}, last |-> NoID,
                                  ctx |-> FALSE, watch |-> "none", late |-> FALSE]]
    /\ pub = [p \in PubCalls |-> [pc |-> "idle", topic |-> "-"]]
    /\ stop = [k \in StopCalls |-> "idle"]
    /\ lastCalls = [s \in Sinks |-> 0]
    /\ gotLive = [s \in Sinks |-> {}]
    /\ gotReplay = {}
    /\ closeCalls = [s \in Sinks |-> 0]
    /\ dropped = [s \in Sinks |-> {}]
    /\ stopsOverlapped = FALSE
    /\ order = <<>>
    /\ noAnchor = {}
    /\ ignored = {}
    /\ gcTick = FALSE
    /\ gcStopped = FALSE
    /\ gcCalls = 0
    /\ gcFailed = FALSE
    /\ finite = NewFiniteProvider(FiniteCount)
    /\ valid = NewValidProvider
    /\ now = 0
    /\ appended = [Finite |-> 0, Valid |-> 0]
    /\ op = NoOp
    /\ chunks = <<>>
    /\ data = NoData

\* ------------------------------------------------------------- the loop
\* Joe.closeSubscribers, deferred by Joe.start: runs when the loop ends for the
\* reason given ("exited" on done, "panicked" on a panic), on the state the
\* handler left.
closeSubscribers(subs, cl, calls, reason) ==
    \E visited \in Visits(subs, cl) :
        /\ closed' = cl \cup visited
        /\ closeCalls' = Bump(calls, visited)
        /\ loopPc' = IF visited \cap cl # {} THEN "panicked" ELSE reason

\* case msg := <-j.message
MessageCase ==
    /\ loopPc = "select"
    /\ message # <<>>
    /\ LET msg == Head(message)
           subs == TopicSubs(topics, msg.topic)
       IN /\ message' = Taken(message)
          /\ replayBuf' = Put(replayBuf, msg)
          /\ \E visited \in Visits(subs, closed) :
                LET sent == {s \in visited \ closed : SendReady(sinkBuf[s])}
                    lost == {s \in visited \ closed : ~SendReady(sinkBuf[s])}
                IN /\ lastCalls' = Bump([s \in Sinks |-> 0], visited)
                   /\ sinkBuf' = [s \in Sinks |->
                         IF s \in sent THEN sinkBuf[s] + 1 ELSE sinkBuf[s]]
                   /\ gotLive' = [s \in Sinks |->
                         IF s \in sent THEN gotLive[s] \cup {msg.id} ELSE gotLive[s]]
                   /\ dropped' = [s \in Sinks |->
                         IF s \in lost THEN dropped[s] \cup {msg.id} ELSE dropped[s]]
                   /\ IF visited \cap closed # {}
                      THEN closeSubscribers(subscribers, closed, closeCalls, "panicked")
                      ELSE /\ loopPc' = "select"
                           /\ UNCHANGED <<closed, closeCalls>>
          /\ topics' = TopicsAfterMessage(topics, msg.topic)
    /\ UNCHANGED <<done, subscribers, replaying, sub, pub, stop, gotReplay,
                   stopsOverlapped, order, noAnchor, ignored, libVars>>

\* the loop inserts the subscription's channel into its topics and subscribers
Register(s) ==
    /\ topics' = Registered(topics, s.ch, s.topics)
    /\ subscribers' = subscribers \cup {s.ch}

\* case sub := <-j.subscription, up to the first send of j.replay.Replay
SubscriptionCase(s) ==
    IF AlreadySubscribed(subscribers, s.ch)
    THEN /\ ignored' = IF /\ Replay(replayBuf, s) # <<>>
                             /\ \E tp \in s.topics : s.ch \notin TopicSubs(topics, tp)
                          THEN ignored \cup {s.ch} ELSE ignored
         /\ UNCHANGED <<topics, subscribers, loopPc, replaying, noAnchor>>
    ELSE LET evs == Replay(replayBuf, s) IN
         IF evs = <<>>
         THEN /\ Register(s)
              /\ noAnchor' = IF sliceErr(replayBuf, s.last) THEN noAnchor \cup {s.ch}
                             ELSE noAnchor
              /\ UNCHANGED <<loopPc, replaying, ignored>>
         ELSE /\ loopPc' = "replay"
              /\ replaying' = [ch |-> s.ch, topics |-> s.topics, pend |-> evs]
              /\ UNCHANGED <<topics, subscribers, noAnchor, ignored>>

\* j.replay.Replay(sub): one blocking send to sub.Channel; after the last one
\* the subscription case goes on to register the channel
ReplaySend ==
    /\ loopPc = "replay"
    /\ LET ch == replaying.ch IN
       IF ch \in closed
       THEN /\ closeSubscribers(subscribers, closed, closeCalls, "panicked")
            /\ replaying' = NoReplay
            /\ UNCHANGED <<topics, subscribers, sinkBuf, gotReplay>>
       ELSE /\ sinkBuf[ch] < SinkCap
            /\ sinkBuf' = [sinkBuf EXCEPT ![ch] = @ + 1]
            /\ gotReplay' = gotReplay \cup {ch}
            /\ IF Len(replaying.pend) = 1
               THEN /\ Register(replaying)
                    /\ loopPc' = "select"
                    /\ replaying' = NoReplay
               ELSE /\ replaying' = [replaying EXCEPT !.pend = Tail(@)]
                    /\ UNCHANGED <<topics, subscribers, loopPc>>
            /\ UNCHANGED <<closed, closeCalls>>
    /\ UNCHANGED <<done, message, replayBuf, sub, pub, stop, lastCalls, gotLive,
                   dropped, stopsOverlapped, order, noAnchor, ignored, libVars>>

\* case unsub := <-j.unsubscription
UnsubscriptionCase(unsub) ==
    /\ topics' = Unregistered(topics, unsub)
    /\ subscribers' = subscribers \ {unsub}
    /\ IF unsub \in closed
       THEN closeSubscribers(subscribers \ {unsub}, closed, Bump(closeCalls, {unsub}),
                             "panicked")
       ELSE /\ closed' = closed \cup {unsub}
            /\ closeCalls' = Bump(closeCalls, {unsub})
            /\ loopPc' = "select"

\* case <-j.done: return, and the deferred closeSubscribers
DoneCase ==
    /\ loopPc = "select"
    /\ done
    /\ closeSubscribers(subscribers, closed, closeCalls, "exited")
    /\ UNCHANGED <<done, message, topics, subscribers, replayBuf, replaying, sinkBuf,
                   sub, pub, stop, lastCalls, gotLive, gotReplay, dropped,
                   stopsOverlapped, order, noAnchor, ignored, libVars>>

\* ------------------------------------------------------------- Subscribe
StopReturned == \E k \in StopCalls : stop[k] = "retOk"

\* Subscribe is called: sub.Topics = topics(sub.Topics), the watcher is spawned
SubscribeCall(c, ch, ts, last) ==
    /\ sub[c].pc = "idle"
    /\ InOrder(sub, c)
    /\ sub' = [sub EXCEPT ![c] = [pc |-> "select", ch |-> ch, topics |-> topicsOf(ts),
                                  last |-> last, ctx |-> FALSE, watch |-> "wait",
                                  late |-> StopReturned]]
    /\ UNCHANGED <<brokerVars, pub, stop, historyVars, stopsOverlapped, order, noAnchor, ignored, libVars>>

\* case j.subscription <- sub: return nil
SubscribeSend(c) ==
    /\ sub[c].pc = "select"
    /\ loopPc = "select"
    /\ SubscriptionCase(sub[c])
    /\ sub' = [sub EXCEPT ![c].pc = "retOk", ![c].topics = {}, ![c].last = NoID,
                          ![c].late = FALSE]
    /\ UNCHANGED <<done, message, replayBuf, sinkBuf, closed, pub, stop, historyVars,
                   stopsOverlapped, order, libVars>>

\* case <-j.done: return ErrProviderClosed
SubscribeClosed(c) ==
    /\ sub[c].pc = "select"
    /\ done
    /\ sub' = [sub EXCEPT ![c].pc = "retClosed", ![c].topics = {}, ![c].last = NoID,
                          ![c].late = FALSE]
    /\ UNCHANGED <<brokerVars, pub, stop, historyVars, stopsOverlapped, order, noAnchor, ignored, libVars>>

\* the context passed to Subscribe is cancelled (a cancellation after the
\* watcher has ended reaches nobody and is left out)
CtxCancel(c) ==
    /\ sub[c].watch = "wait"
    /\ ~sub[c].ctx
    /\ sub' = [sub EXCEPT ![c].ctx = TRUE]
    /\ UNCHANGED <<brokerVars, pub, stop, historyVars, stopsOverlapped, order, noAnchor, ignored, libVars>>

\* watcher, first select: case <-ctx.Done()
WatcherCtxDone(c) ==
    /\ sub[c].watch = "wait"
    /\ sub[c].ctx
    /\ sub' = [sub EXCEPT ![c].watch = "unsub"]
    /\ UNCHANGED <<brokerVars, pub, stop, historyVars, stopsOverlapped, order, noAnchor, ignored, libVars>>

\* watcher, first select: case <-j.done: return
WatcherDone(c) ==
    /\ sub[c].watch = "wait"
    /\ done
    /\ sub' = [sub EXCEPT ![c].watch = "quit"]
    /\ UNCHANGED <<brokerVars, pub, stop, historyVars, stopsOverlapped, order, noAnchor, ignored, libVars>>

\* watcher, second select: case j.unsubscription <- sub.Channel
WatcherUnsub(c) ==
    /\ sub[c].watch = "unsub"
    /\ loopPc = "select"
    /\ UnsubscriptionCase(sub[c].ch)
    /\ sub' = [sub EXCEPT ![c].watch = "sent"]
    /\ UNCHANGED <<done, message, replayBuf, replaying, sinkBuf, pub, stop, lastCalls,
                   gotLive, gotReplay, dropped, stopsOverlapped, order, noAnchor, ignored, libVars>>

\* watcher, second select: case <-j.done
WatcherQuit(c) ==
    /\ sub[c].watch = "unsub"
    /\ done
    /\ sub' = [sub EXCEPT ![c].watch = "quit"]
    /\ UNCHANGED <<brokerVars, pub, stop, historyVars, stopsOverlapped, order, noAnchor, ignored, libVars>>

\* ------------------------------------------------------------- Publish
\* mutant: Publish selects on j.message alone
publishNoDone(isDone) == FALSE

\* Publish's case <-j.done is ready once done is closed
publishDone(isDone) == isDone

\* Publish is called and reaches its select.  The
\* call does nothing before the select, so a call that finds a ready case takes
\* it in the step in which it begins; only a call that finds none is left
\* blocked in the select.
\* case j.message <- msg: return nil
PublishSend(p) ==
    /\ pub[p].pc = "idle"
    /\ InOrder(pub, p)
    /\ Len(message) < MessageChannelBuffer
    /\ message' = Append(message, [id |-> p, topic |-> TopicArg(p)])
    /\ order' = Append(order, p)
    /\ pub' = [pub EXCEPT ![p] = [pc |-> "retOk", topic |-> "-"]]
    /\ UNCHANGED <<done, topics, subscribers, replayBuf, loopPc, replaying, sinkBuf,
                   closed, sub, stop, historyVars, stopsOverlapped, noAnchor, ignored, libVars>>

\* case <-j.done: return ErrProviderClosed
PublishClosed(p) ==
    /\ pub[p].pc = "idle"
    /\ InOrder(pub, p)
    /\ publishDone(done)
    /\ pub' = [pub EXCEPT ![p] = [pc |-> "retClosed", topic |-> "-"]]
    /\ UNCHANGED <<brokerVars, sub, stop, historyVars, stopsOverlapped, order, noAnchor, ignored, libVars>>

\* no case is ready: the caller blocks in the select
PublishBlock(p) ==
    /\ pub[p].pc = "idle"
    /\ InOrder(pub, p)
    /\ ~publishDone(done)
    /\ Len(message) >= MessageChannelBuffer
    /\ pub' = [pub EXCEPT ![p] = [pc |-> "select", topic |-> TopicArg(p)]]
    /\ UNCHANGED <<brokerVars, sub, stop, historyVars, stopsOverlapped, order, noAnchor, ignored, libVars>>

\* a blocked caller: case j.message <- msg: return nil
BlockedPublishSend(p) ==
    /\ pub[p].pc = "select"
    /\ Len(message) < MessageChannelBuffer
    /\ message' = Append(message, [id |-> p, topic |-> pub[p].topic])
    /\ order' = Append(order, p)
    /\ pub' = [pub EXCEPT ![p].pc = "retOk", ![p].topic = "-"]
    /\ UNCHANGED <<done, topics, subscribers, replayBuf, loopPc, replaying, sinkBuf,
                   closed, sub, stop, historyVars, stopsOverlapped, noAnchor, ignored, libVars>>

\* a blocked caller: case <-j.done: return ErrProviderClosed
BlockedPublishClosed(p) ==
    /\ pub[p].pc = "select"
    /\ publishDone(done)
    /\ pub' = [pub EXCEPT ![p].pc = "retClosed", ![p].topic = "-"]
    /\ UNCHANGED <<brokerVars, sub, stop, historyVars, stopsOverlapped, order, noAnchor, ignored, libVars>>

\* ------------------------------------------------------------- Stop
\* mutant: Stop closes done without looking at it first
stopNoSelect(isDone) == "closing"

\* Stop's select: case <-j.done: return ErrProviderClosed; default: go on to close
stopSelect(isDone) == IF isDone THEN "retClosed" ELSE "closing"

\* a Stop call begins and runs its select
StopSelect(k) ==
    /\ stop[k] = "idle"
    /\ IF k = 1 THEN TRUE ELSE stop[k - 1] # "idle"
    /\ stop' = [stop EXCEPT ![k] = stopSelect(done)]
    /\ stopsOverlapped' = (stopsOverlapped \/
                           \E o \in StopCalls \ {k} : stop[o] = "closing")
    /\ UNCHANGED <<brokerVars, sub, pub, historyVars, order, noAnchor, ignored, libVars>>

\* close(j.done); return nil
StopClose(k) ==
    /\ stop[k] = "closing"
    /\ IF done
       THEN /\ stop' = [stop EXCEPT ![k] = "panicked"]
            /\ UNCHANGED done
       ELSE /\ stop' = [stop EXCEPT ![k] = "retOk"]
            /\ done' = TRUE
    /\ UNCHANGED <<message, topics, subscribers, replayBuf, loopPc, replaying, sinkBuf,
                   closed, sub, pub, historyVars, stopsOverlapped, order, noAnchor, ignored, libVars>>

\* ------------------------------------------------------------- the request side
\* the request goroutine receives from its subscriber channel
Receive(s) ==
    /\ sinkBuf[s] > 0
    /\ sinkBuf' = [sinkBuf EXCEPT ![s] = @ - 1]
    /\ UNCHANGED <<done, message, topics, subscribers, replayBuf, loopPc, replaying,
                   closed, sub, pub, stop, historyVars, stopsOverlapped, order, noAnchor, ignored, libVars>>

\* One step of the program: the loop, the request side, and the Subscribe,
\* Publish and Stop calls numbered in C, P and K.
Step(C, P, K) ==
    \/ MessageCase
    \/ ReplaySend
    \/ DoneCase
    \/ \E c \in C, ts \in TopicArgs, last \in LastIDs :
           \E ch \in ChannelArgs(c) : SubscribeCall(c, ch, ts, last)
    \/ \E c \in C : SubscribeSend(c)
    \/ \E c \in C : SubscribeClosed(c)
    \/ \E c \in C : CtxCancel(c)
    \/ \E c \in C : WatcherCtxDone(c)
    \/ \E c \in C : WatcherDone(c)
    \/ \E c \in C : WatcherUnsub(c)
    \/ \E c \in C : WatcherQuit(c)
    \/ \E p \in P : PublishSend(p)
    \/ \E p \in P : PublishClosed(p)
    \/ \E p \in P : PublishBlock(p)
    \/ \E p \in P : BlockedPublishSend(p)
    \/ \E p \in P : BlockedPublishClosed(p)
    \/ \E k \in K : StopSelect(k)
    \/ \E k \in K : StopClose(k)
    \/ \E s \in Sinks : Receive(s)

\* The broker with MaxSub Subscribe calls, MaxPub Publish calls and one Stop
\* call.  Stop calls act on the rest of the program through done alone, which
\* the first successful one closes for good, so one call is enough here.
Next == Step(SubCalls, PubCalls, {1})

Spec == Init /\ [][Next]_vars

\* The broker with every Stop call, one Subscribe call and two Publish calls.
StopNext == Step({1}, {1, 2}, StopCalls)

StopSpec == Init /\ [][StopNext]_vars

\* The steps of one Publish caller blocked in its select, of one Subscribe
\* caller and of one watcher goroutine
PublishCaller(p) == BlockedPublishSend(p) \/ BlockedPublishClosed(p)
SubscribeCaller(c) == SubscribeSend(c) \/ SubscribeClosed(c)
Watcher(c) == WatcherCtxDone(c) \/ WatcherDone(c) \/ WatcherUnsub(c) \/ WatcherQuit(c)

\* The broker with one Subscribe call, two Publish calls and one Stop call,
\* under the scheduling the Go runtime gives: a goroutine that stays runnable
\* is run eventually.
FairSubs == {1}
FairPubs == {1, 2}
FairNext == Step(FairSubs, FairPubs, {1})

FairSpec ==
    /\ Init
    /\ [][FairNext]_vars
    /\ \A p \in FairPubs : WF_vars(PublishCaller(p))
    /\ \A c \in FairSubs : WF_vars(SubscribeCaller(c))
    /\ \A c \in FairSubs : WF_vars(Watcher(c))

\* ------------------------------------------------------------- the gc tick
\* mutant: the gc case calls j.replay.GC and drops its result
neverStopsGC(err) == FALSE

\* if err := j.replay.GC(); err != nil { j.stopGC() }   (err: GC's result is non-nil)
stopsGC(err) == err

\* the ticker puts a tick on j.gc; it does not once stopGC has been called,
\* which the loop goroutine also does when it ends
Tick ==
    /\ ~gcStopped
    /\ loopPc \in {"select", "replay"}
    /\ ~gcTick
    /\ gcCalls < MaxGC
    /\ gcTick' = TRUE
    /\ UNCHANGED <<brokerVars, sub, pub, stop, historyVars, stopsOverlapped, order,
                   noAnchor, ignored, gcStopped, gcCalls, gcFailed, providerVars, op, chunks,
                   data>>

\* case <-j.gc: j.replay.GC() returns err (non-nil when err is TRUE); GC of the
\* broker's Finite provider leaves the buffer as it is
GCCase(err) ==
    /\ loopPc = "select"
    /\ gcTick
    /\ gcTick' = FALSE
    /\ gcCalls' = gcCalls + 1
    /\ gcFailed' = (gcFailed \/ err)
    /\ gcStopped' = (gcStopped \/ stopsGC(err))
    /\ UNCHANGED <<brokerVars, sub, pub, stop, historyVars, stopsOverlapped, order,
                   noAnchor, ignored, providerVars, op, chunks, data>>

\* The broker with a GC ticker, one Subscribe call, two Publish calls and one
\* Stop call.
GCNext ==
    \/ Step({1}, {1, 2}, {1})
    \/ Tick
    \/ \E err \in BOOLEAN : GCCase(err)

GCSpec == Init /\ [][GCNext]_vars

\* ------------------------------------------------------------- replay providers
\* the event the n-th Append call on a provider passes; it expires at exp
Event(n, exp) == [id |-> n, exp |-> exp]

\* the outcome of a provider operation, as op records it
Outcome(name, from, err, calls, before) ==
    [name |-> name, from |-> from, err |-> err, calls |-> calls, before |-> before,
     at |-> now]

\* NewFiniteProvider(count, false)
NewFinite(count) ==
    /\ finite' = NewFiniteProvider(count)
    /\ appended' = [appended EXCEPT !.Finite = 0]
    /\ op' = NoOp
    /\ UNCHANGED <<brokerVars, sub, pub, stop, historyVars, stopsOverlapped, order, noAnchor, ignored,
                   gcVars, valid, now, chunks, data>>

\* f.Append(&e)
FiniteAppendCall ==
    /\ appended.Finite < MaxAppend
    /\ finite' = FiniteAppend(finite, Event(appended.Finite + 1, 0))
    /\ appended' = [appended EXCEPT !.Finite = @ + 1]
    /\ op' = Outcome("FiniteAppend", NoID, FALSE, <<>>, finite.b)
    /\ UNCHANGED <<brokerVars, sub, pub, stop, historyVars, stopsOverlapped, order, noAnchor, ignored,
                   gcVars, valid, now, chunks, data>>

\* f.Range(from, fn)
FiniteRangeCall(from) ==
    /\ op' = Outcome("FiniteRange", from, sliceErr(finite.b, from),
                     Range(finite.b, from), finite.b)
    /\ UNCHANGED <<brokerVars, sub, pub, stop, historyVars, stopsOverlapped, order, noAnchor, ignored,
                   gcVars, providerVars, chunks, data>>

\* v.Append(&e), e expiring at exp
ValidAppendCall(exp) ==
    /\ appended.Valid < MaxAppend
    /\ valid' = ValidAppend(valid, Event(appended.Valid + 1, exp))
    /\ appended' = [appended EXCEPT !.Valid = @ + 1]
    /\ op' = Outcome("ValidAppend", NoID, FALSE, <<>>, valid.b)
    /\ UNCHANGED <<brokerVars, sub, pub, stop, historyVars, stopsOverlapped, order, noAnchor, ignored,
                   gcVars, finite, now, chunks, data>>

\* v.GC()
ValidGCCall ==
    /\ valid' = [valid EXCEPT !.b = GC(@, now)]
    /\ op' = Outcome("ValidGC", NoID, FALSE, <<>>, valid.b)
    /\ UNCHANGED <<brokerVars, sub, pub, stop, historyVars, stopsOverlapped, order, noAnchor, ignored,
                   gcVars, finite, now, appended, chunks, data>>

\* v.Range(from, fn)
ValidRangeCall(from) ==
    /\ op' = Outcome("ValidRange", from, sliceErr(valid.b, from),
                     ValidRange(valid.b, from, now), valid.b)
    /\ UNCHANGED <<brokerVars, sub, pub, stop, historyVars, stopsOverlapped, order, noAnchor, ignored,
                   gcVars, providerVars, chunks, data>>

\* time passes
Clock ==
    /\ now < MaxTime
    /\ now' = now + 1
    /\ UNCHANGED <<brokerVars, sub, pub, stop, historyVars, stopsOverlapped, order, noAnchor, ignored,
                   gcVars, finite, valid, appended, op, chunks, data>>

\* The two providers on their own: created, appended to, collected and ranged
\* over by one goroutine while time passes.
ReplayNext ==
    \/ \E count \in 1..FiniteCount : NewFinite(count)
    \/ FiniteAppendCall
    \/ \E from \in IDArgs : FiniteRangeCall(from)
    \/ \E exp \in ExpArgs : ValidAppendCall(exp)
    \/ ValidGCCall
    \/ \E from \in IDArgs : ValidRangeCall(from)
    \/ Clock

ReplaySpec == Init /\ [][ReplayNext]_vars

\* ------------------------------------------------------------- Message
\* a value is a sequence of characters: "x" stands for a run of text without
\* line separators
IsSep(c) == c \in {"\n", "\r"}

\* the place of the first separator of s and the number of characters it takes
\* ("\r\n" is one separator)
FirstSep(s) == CHOOSE i \in 1..Len(s) : IsSep(s[i]) /\ \A k \in 1..(i - 1) : ~IsSep(s[k])
SepLen(s, i) == IF s[i] = "\r" /\ i < Len(s) /\ s[i + 1] = "\n" THEN 2 ELSE 1

RECURSIVE ChunkedWithTail(_)
\* mutant: what is left after the last separator is a chunk even when empty
ChunkedWithTail(s) ==
    IF \E i \in 1..Len(s) : IsSep(s[i])
    THEN LET i == FirstSep(s) IN
         <<SubSeq(s, 1, i - 1)>> \o ChunkedWithTail(SubSeq(s, i + SepLen(s, i), Len(s)))
    ELSE <<s>>

RECURSIVE Chunked(_)
\* the chunk contents AppendData makes of one value: TestNew makes three chunks
\* of "will\nbe\nchunked"; TestEvent_WriteTo makes none of "" and four, the
\* third one empty, of "Important data\nImportant again\r\rVery important\r\n"
Chunked(s) ==
    IF s = <<>> THEN <<>>
    ELSE IF \E i \in 1..Len(s) : IsSep(s[i])
    THEN LET i == FirstSep(s) IN
         <<SubSeq(s, 1, i - 1)>> \o Chunked(SubSeq(s, i + SepLen(s, i), Len(s)))
    ELSE <<s>>

\* e.AppendData(s): the chunks it appends, none of them a comment
AppendData(s) == [i \in 1..Len(Chunked(s)) |-> [content |-> Chunked(s)[i],
                                                isComment |-> FALSE]]

\* e.WriteTo: the lines written for the chunks, a field name and its value each
WriteTo(chs) == [i \in 1..Len(chs) |->
                    [name |-> IF chs[i].isComment THEN ":" ELSE "data:",
                     value |-> chs[i].content]]

\* the values AppendData is called with: every value of at most MaxLen
\* characters and the value of TestEvent_WriteTo
TestData == <<"x", "\n", "x", "\r", "\r", "x", "\r", "\n">>
DataArgs == UNION {[1..n -> {"x", "\n", "\r"}] : n \in 0..MaxLen} \cup {TestData}

\* e.AppendData(s) on a Message of fewer than MaxChunks chunks
AppendDataCall(s) ==
    /\ Len(chunks) < MaxChunks
    /\ chunks' = chunks \o AppendData(s)
    /\ data' = [value |-> s, added |-> AppendData(s)]
    /\ UNCHANGED <<brokerVars, sub, pub, stop, historyVars, stopsOverlapped, order,
                   noAnchor, ignored, gcVars, providerVars, op>>

\* e.reset()
Reset ==
    /\ chunks # <<>>
    /\ chunks' = <<>>
    /\ data' = NoData
    /\ UNCHANGED <<brokerVars, sub, pub, stop, historyVars, stopsOverlapped, order,
                   noAnchor, ignored, gcVars, providerVars, op>>

\* A Message that data is appended to.
MessageNext ==
    \/ \E s \in DataArgs : AppendDataCall(s)
    \/ Reset

MessageSpec == Init /\ [][MessageNext]_vars

\* ------------------------------------------------------------- properties
\* the step in which the loop takes a message off j.message
Dequeues == message # <<>> /\ message' = Tail(message)

\* the sinks registered under topic identifier
InTopic(identifier) == IF identifier \in DOMAIN topics THEN topics[identifier] ELSE {}

\* the sinks that are in some topic set
InSomeTopic == UNION {topics[t] : t \in DOMAIN topics}

\* the sinks whose unsubscription the loop has processed
Unsubscribed == {sub[c].ch : c \in {x \in SubCalls : sub[x].watch = "sent"}}

\* the loop goroutine has ended
LoopEnded == loopPc \in {"exited", "panicked"}

\* C1: for every message the loop dequeues, the send policy is invoked exactly
\* once for each sink that is in topics[m.Topic] at that moment and not at all
\* for any other sink.
C1_SendOncePerTopicSink ==
    [][Dequeues => \A s \in Sinks :
          lastCalls'[s] = IF s \in InTopic(Head(message).topic) THEN 1 ELSE 0]_vars

\* C2: every event Replay sends goes to a sink that is in no topic set and not
\* in subscribers and that no published message has been sent to, and the loop
\* dequeues no message while a replay is under way: replay is complete before
\* any live message is sent to the sink.
C2_ReplayBeforeLive ==
    [][/\ \A s \in Sinks :
            (loopPc = "replay" /\ sinkBuf'[s] > sinkBuf[s]) =>
                /\ s = replaying.ch
                /\ gotLive[s] = {}
                /\ s \notin InSomeTopic
                /\ s \notin subscribers
       /\ Dequeues => loopPc = "select" /\ replaying = NoReplay]_vars

\* C2 witness: a sink received a replayed event and, after it, a live message
C2_Witness == \E s \in Sinks : s \in gotReplay /\ gotLive[s] # {}

\* C3: once the loop has ended, every sink in subscribers is closed.
C3_AllClosedAtExit == LoopEnded => subscribers \subseteq closed

\* C4: the loop goroutine executes close on each sink at most once.
C4_ClosedAtMostOnce == \A s \in Sinks : closeCalls[s] <= 1

\* C5: a Publish or Subscribe call that begins after a Stop call has returned
\* nil does not return nil (its message or subscription is not accepted).
C5_ClosedAfterStop ==
    [][/\ \A p \in PubCalls :
            (pub[p].pc = "idle" /\ StopReturned) => pub'[p].pc # "retOk"
       /\ \A c \in SubCalls :
            (sub[c].pc = "select" /\ sub[c].late) => sub'[c].pc # "retOk"]_vars

\* C6: as long as Stop calls are made one after another, the first one closes
\* done and returns nil, every later one returns ErrProviderClosed and changes
\* nothing, none panics, and a call never has to wait to take its next step.
C6_SequentialStop ==
    /\ [](~stopsOverlapped =>
            /\ stop[1] \in {"idle", "closing", "retOk"}
            /\ \A k \in StopCalls \ {1} : stop[k] \in {"idle", "retClosed"}
            /\ done <=> stop[1] = "retOk"
            /\ \A k \in StopCalls : stop[k] = "closing" => ENABLED StopClose(k))
    /\ [][\A k \in StopCalls :
            (stop[k] = "idle" /\ stop'[k] = "retClosed") =>
                UNCHANGED <<brokerVars, sub, pub, historyVars>>]_vars

\* C6 witness: two Stop calls in sequence have returned, the loop still runs
C6_Witness ==
    /\ ~stopsOverlapped
    /\ stop[1] = "retOk"
    /\ \A k \in StopCalls \ {1} : stop[k] = "retClosed"
    /\ loopPc = "select"

\* C8: for a Subscribe call that returned nil, once the loop has received the
\* unsubscription its watcher sent, the sink is in no topic set, not in
\* subscribers, and closed.
C8_CancelledNotRegistered ==
    \A c \in SubCalls :
        (sub[c].pc = "retOk" /\ sub[c].watch = "sent") =>
            /\ sub[c].ch \notin subscribers
            /\ sub[c].ch \notin InSomeTopic
            /\ sub[c].ch \in closed

PutId == IF loopPc = "replay" THEN Head(replaying.pend).id ELSE Head(message).id

\* C10: with SendTimeout = 0 a message the loop dequeues changes neither
\* topics nor subscribers; a sink that is not ready gets nothing and the
\* message is dropped for it, while every ready sink of the topic still gets
\* it and the loop is back in its select in the same step (unless a closed
\* sink made the send panic); a message dropped for a sink is never put on
\* that sink later.
C10_DropOnlyForBusySink ==
    [][/\ Dequeues =>
            /\ topics' = topics
            /\ subscribers' = subscribers
            /\ loopPc' # "replay"
            /\ \A s \in Sinks \ closed :
                  IF lastCalls'[s] = 0 THEN sinkBuf'[s] = sinkBuf[s]
                  ELSE IF sinkBuf[s] >= SinkCap
                  THEN sinkBuf'[s] = sinkBuf[s] /\ Head(message).id \in dropped'[s]
                  ELSE sinkBuf'[s] = sinkBuf[s] + 1
            /\ InTopic(Head(message).topic) \cap closed = {} =>
                  /\ loopPc' = "select"
                  /\ \A s \in InTopic(Head(message).topic) : lastCalls'[s] = 1
       /\ \A s \in Sinks : sinkBuf'[s] > sinkBuf[s] => PutId \notin dropped[s]]_vars

\* C10 witness: message 2 was dropped for a busy sink and delivered to another
\* one, and the busy sink, still registered, got message 3
C10_Witness ==
    \E s \in Sinks :
        /\ 2 \in dropped[s]
        /\ 3 \in gotLive[s]
        /\ s \in subscribers
        /\ \E o \in Sinks \ {s} : 2 \in gotLive[o]

\* C7: once done is closed, every Publish and Subscribe call in progress
\* returns and every watcher goroutine ends.
C7_ReturnsAfterStop ==
    /\ \A p \in FairPubs : (done /\ pub[p].pc = "select") ~> (pub[p].pc # "select")
    /\ \A c \in FairSubs : (done /\ sub[c].pc = "select") ~> (sub[c].pc # "select")
    /\ \A c \in FairSubs :
          (done /\ sub[c].watch \in {"wait", "unsub"}) ~> (sub[c].watch \in {"sent", "quit"})

\* C7 witness: done is closed and the loop has ended while a Publish caller, a
\* Subscribe caller and a watcher that wants to unsubscribe are still waiting
C7_Witness ==
    /\ done
    /\ LoopEnded
    /\ \E p \in PubCalls : pub[p].pc = "select"
    /\ \E c \in SubCalls : sub[c].pc = "select"
    /\ \E c \in SubCalls : sub[c].watch = "unsub"

\* the place of message id in the order of entry into j.message
Pos(id) == CHOOSE i \in 1..Len(order) : order[i] = id

\* the loop's message case puts the message on sink s in this step
LiveSend(s) == loopPc = "select" /\ message # <<>> /\ sinkBuf'[s] > sinkBuf[s]

Place(b, id) == CHOOSE i \in 1..Len(b) : b[i].id = id

\* the last operation was a Range whose buffer held an event with ID = from
RangedFromAnchor ==
    /\ op.name \in {"FiniteRange", "ValidRange"}
    /\ \E i \in 1..Len(op.before) : op.before[i].id = op.from

\* C12: a Range from an ID the buffer holds returns nil and calls fn only for
\* events placed after the anchor, in the buffer's order and at most once each;
\* Finite.Range calls it for every such event; with the newest event as the
\* anchor fn is not called.
C12_RangeAfterAnchor ==
    RangedFromAnchor =>
        LET b == op.before
            a == Place(b, op.from)
            calls == op.calls
        IN /\ ~op.err
           /\ \A j \in 1..Len(calls) :
                 /\ \E i \in (a + 1)..Len(b) : b[i] = calls[j]
                 /\ \A k \in (j + 1)..Len(calls) :
                       Place(b, calls[j].id) < Place(b, calls[k].id)
           /\ op.name = "FiniteRange" =>
                 /\ Len(calls) = Len(b) - a
                 /\ \A i \in (a + 1)..Len(b) : calls[i - a] = b[i]
           /\ a = Len(b) => calls = <<>>

\* C12 witness: Valid.Range from the oldest of three events passed on one of
\* the two newer ones
C12_Witness ==
    /\ op.name = "ValidRange"
    /\ Len(op.before) = 3
    /\ op.from = op.before[1].id
    /\ Len(op.calls) = 1

\* the loop takes the subscription of call c, whose channel is not registered
\* and whose LastEventID is the ID of no event in the replay buffer
TakesUnknownID(c) ==
    /\ sub[c].pc = "select"
    /\ sub'[c].pc = "retOk"
    /\ sub[c].ch \notin subscribers
    /\ \A i \in 1..Len(replayBuf) : replayBuf[i].id # sub[c].last

\* C13: when the LastEventID of a subscription matches no buffered message,
\* Range fails and passes nothing to fn, nothing is sent to the sink, Subscribe
\* has returned nil, the loop is back in its select and the sink is in
\* subscribers and in the set of each of its topics.
C13_UnknownIDStillRegisters ==
    [][\A c \in SubCalls : TakesUnknownID(c) =>
          /\ sliceErr(replayBuf, sub[c].last)
          /\ Range(replayBuf, sub[c].last) = <<>>
          /\ sinkBuf' = sinkBuf
          /\ gotReplay' = gotReplay
          /\ loopPc' = "select"
          /\ sub[c].ch \in subscribers'
          /\ \A tp \in sub[c].topics :
                tp \in DOMAIN topics' /\ sub[c].ch \in topics'[tp]]_vars

\* C13 witness: a sink registered with a LastEventID that was not in the
\* buffer got no replay and then a published message, which is in the buffer
C13_Witness ==
    \E s \in noAnchor :
        /\ s \notin gotReplay
        /\ gotLive[s] # {}
        /\ gotLive[s] \cap {replayBuf[i].id : i \in 1..Len(replayBuf)} # {}

\* C14: after N Append calls a Finite provider of count k holds the last
\* min(N, k) appended events in the order they were appended, never more than
\* k, and an Append on a full buffer removes the oldest event and no other.
C14_FiniteKeepsLastK ==
    LET N == appended.Finite
        k == finite.count
        n == IF N < k THEN N ELSE k
    IN /\ Len(finite.b) = n
       /\ Len(finite.b) <= k
       /\ \A i \in 1..n : finite.b[i] = Event(N - n + i, 0)
       /\ (op.name = "FiniteAppend" /\ Len(op.before) = k) =>
             finite.b = Append(Tail(op.before), Event(N, 0))

\* C14 witness: an Append on the full buffer of a provider of count 2 or more
C14_Witness ==
    /\ op.name = "FiniteAppend"
    /\ finite.count >= 2
    /\ Len(op.before) = finite.count
    /\ appended.Finite > finite.count

\* the length of the longest leading run of events of b that expired before t
ExpiredRun(b, t) ==
    CHOOSE n \in 0..Len(b) :
        /\ \A i \in 1..n : b[i].exp < t
        /\ n = Len(b) \/ ~(b[n + 1].exp < t)

\* C15: Valid.GC at time now removes the longest leading run of events whose
\* ExpiresAt is before now and nothing else; the events it keeps stay in
\* order, none of them was removed unexpired, and the oldest one left has not
\* expired.
C15_GCRemovesExpiredPrefix ==
    op.name = "ValidGC" =>
        /\ valid.b = SubSeq(op.before, ExpiredRun(op.before, op.at) + 1, Len(op.before))
        /\ valid.b # <<>> => ~(Head(valid.b).exp < op.at)

\* C16: Valid.Range at time T passes to fn no event whose ExpiresAt is at or
\* before T, wherever the event is in the buffer and whatever GC did before.
C16_NoExpiredReplayed ==
    op.name = "ValidRange" =>
        \A j \in 1..Len(op.calls) : ~(op.calls[j].exp <= op.at)

\* C16 witness: of the three events after the anchor the first and the last
\* were passed to fn and the one between them, expired, was not
C16_Witness ==
    /\ op.name = "ValidRange"
    /\ Len(op.before) >= 3
    /\ \E a \in 1..(Len(op.before) - 2) :
          /\ op.before[a].id = op.from
          /\ op.before[a + 1].exp <= op.at
          /\ op.calls = <<op.before[a + 2]>>

\* C17: once a call of j.replay.GC has returned a non-nil error the loop calls
\* it no more; until then every tick the loop receives is a call of GC; the gc
\* case changes nothing else and leaves the loop in its select, where it goes
\* on taking messages, subscriptions and unsubscriptions.
C17_NoGCAfterError ==
    /\ [][/\ gcFailed => gcCalls' = gcCalls
          /\ (gcTick /\ ~gcTick') =>
                /\ gcCalls' = gcCalls + 1
                /\ loopPc' = "select"
                /\ UNCHANGED <<brokerVars, sub, pub, stop, historyVars>>]_vars
    /\ []((gcFailed /\ loopPc = "select") =>
            /\ ~gcTick
            /\ message # <<>> => ENABLED MessageCase
            /\ \A c \in {1} :
                  /\ sub[c].pc = "select" => ENABLED SubscribeSend(c)
                  /\ sub[c].watch = "unsub" => ENABLED WatcherUnsub(c))

\* C17 witness: GC returned nil once and an error the second time; the ticker
\* is stopped and the loop, in its select, has a message to take
C17_Witness ==
    /\ gcFailed
    /\ gcStopped
    /\ gcCalls = 2
    /\ loopPc = "select"
    /\ message # <<>>
    /\ subscribers # {}

\* the number of separators in s ("\r\n" is one)
SepCount(s) ==
    Cardinality({i \in 1..Len(s) : s[i] = "\n"}) +
    Cardinality({i \in 1..Len(s) : s[i] = "\r" /\ ~(i < Len(s) /\ s[i + 1] = "\n")})

EndsWithSep(s) == s # <<>> /\ IsSep(s[Len(s)])

\* the lines WriteTo writes for the chunks the last AppendData call added
DataLines == SelectSeq(WriteTo(data.added), LAMBDA l : l.name = "data:")

\* C18 as stated: AppendData(s) adds one chunk per line segment of s and, when
\* s ends with a separator, one more, empty chunk: s with n separators makes
\* n + 1 data: lines, the last one empty when s ends with a separator.
C18_TrailingSeparatorChunk ==
    data.value # <<>> =>
        /\ Len(DataLines) = SepCount(data.value) + 1
        /\ EndsWithSep(data.value) => DataLines[Len(DataLines)].value = <<>>

RECURSIVE Joined(_)
\* the chunk contents one after another
Joined(cs) == IF cs = <<>> THEN <<>> ELSE Head(cs).content \o Joined(Tail(cs))

\* C18 amended: AppendData(s) adds one non-comment chunk per line segment of
\* s, splitting on each of \r\n, \n and \r; a separator at the end of s ends
\* the last segment and adds no further chunk: s with n separators makes n
\* data: lines when it is empty or ends with a separator and n + 1 otherwise,
\* and the chunks are the text of s, in order, without the separators.
C18_NoChunkAfterTrailingSeparator ==
    /\ \A i \in 1..Len(data.added) :
          /\ ~data.added[i].isComment
          /\ \A k \in 1..Len(data.added[i].content) : ~IsSep(data.added[i].content[k])
    /\ Len(DataLines) = Len(data.added)
    /\ Len(data.added) = IF data.value = <<>> \/ EndsWithSep(data.value)
                         THEN SepCount(data.value)
                         ELSE SepCount(data.value) + 1
    /\ Joined(data.added) = SelectSeq(data.value, LAMBDA c : ~IsSep(c))

\* C18 witness: the value of TestEvent_WriteTo made the four chunks the test
\* expects
C18_Witness ==
    /\ data.value = TestData
    /\ DataLines = <<[name |-> "data:", value |-> <<"x">>],
                     [name |-> "data:", value |-> <<"x">>],
                     [name |-> "data:", value |-> <<>>],
                     [name |-> "data:", value |-> <<"x">>]>>

\* C19: however Stop calls overlap, none of them closes a closed done (no
\* panic) and at most one returns nil; when all have returned, one returned nil
\* and the others ErrProviderClosed.
C19_ConcurrentStopOnce ==
    /\ \A k \in StopCalls : stop[k] # "panicked"
    /\ Cardinality({k \in StopCalls : stop[k] = "retOk"}) <= 1
    /\ (\A k \in StopCalls : stop[k] \in {"retOk", "retClosed"}) =>
          Cardinality({k \in StopCalls : stop[k] = "retOk"}) = 1

\* C20: while the loop runs, no sink that is in subscribers or in a topic set
\* is closed.
C20_RegisteredSinksOpen ==
    loopPc \in {"select", "replay"} => (subscribers \cup InSomeTopic) \cap closed = {}

\* the loop takes the subscription of call c, whose channel is in subscribers
TakesDuplicate(c) ==
    /\ sub[c].pc = "select"
    /\ sub'[c].pc = "retOk"
    /\ sub[c].ch \in subscribers

\* C21: a subscription whose Channel is already in subscribers changes neither
\* topics nor subscribers and starts no replay, whatever its Topics and
\* LastEventID: nothing is sent to the sink and the loop is back in its select.
C21_DuplicateIgnored ==
    [][\A c \in SubCalls : TakesDuplicate(c) =>
          /\ topics' = topics
          /\ subscribers' = subscribers
          /\ loopPc' = "select"
          /\ replaying' = NoReplay
          /\ sinkBuf' = sinkBuf
          /\ gotReplay' = gotReplay]_vars

\* C21 witness: a registered sink for which a second subscription, naming a
\* topic it was not in and a LastEventID with events after it, was taken: it
\* is still outside that topic and was sent no replay
C21_Witness ==
    \E s \in ignored :
        /\ s \in subscribers
        /\ s \notin InTopic("t")
        /\ s \notin gotReplay
        /\ loopPc = "select"
====
